---------------------------- MODULE Spec2Model ----------------------------
(***************************************************************************)
(* A model of pywam_gui_tool: the JSON settings store (settings.py), the   *)
(* application mediator (app.py) and the parts of the GUI shell (gui.py)   *)
(* that drive them.                                                        *)
(*                                                                         *)
(* Python values are modelled with their run-time type where the code      *)
(* inspects it (isinstance): a value is a record [t |-> type, <type> |->  *)
(* value], its value held in a field named after the type.                *)
(* A Python dict is a TLA+ function whose DOMAIN is the set of its keys.   *)
(* An attribute that was never assigned is Unset: reading it raises        *)
(* AttributeError, which is different from reading None.                   *)
(***************************************************************************)
EXTENDS Integers, Sequences, FiniteSets, TLC

VARIABLES
    settings,        \* Settings._settings, the in-memory document (a dict)
    settings_file,   \* the content of SETTINGS_FILE on disk
    call,            \* the last Settings call: operation, argument, exception raised
    vin,             \* the value handed to a validate_* method of App
    vout,            \* what that method did: returned, or the exception it raised
    events,          \* App.events, the event history (an attribute of App)
    nreceived,       \* how many times the library has called App.event_receiver
    lst_events,      \* Events.lst_events, the rows of the GUI event list
    notified,        \* the last Events.new_event call: the event and the trunc flag
    speaker,         \* App.speaker, the session handle (an attribute of App)
    handles,         \* the Speaker objects constructed so far
    tasks,           \* the asyncio tasks created so far, in creation order
    btn_connect,     \* Header.btn_connect state
    btn_disconnect,  \* Header.btn_disconnect state
    btn_send_api,    \* Header.btn_send_api state
    send_window,     \* SendApiWindows._show
    requested,       \* the last call handed to a session's client.request
    window_show,     \* Window._show: the driver loop of Window.show goes on
    run,             \* where App.run (and the start-up before it) stands
    msgbox,          \* the message of the last tkmsgbox.showerror, "" if none
    arguments,       \* SendApiWindows.arguments, the arguments of the composed call
    dialog           \* the ArgumentsDialog: whether it is open, and its result

settings_vars == <<settings, settings_file, call>>

validate_vars == <<vin, vout>>

event_vars == <<events, nreceived, lst_events, notified>>

conn_vars == <<speaker, handles, tasks, btn_connect, btn_disconnect,
               btn_send_api, send_window, requested>>

run_vars == <<window_show, run, msgbox>>

dialog_vars == <<arguments, dialog>>

vars == <<settings, settings_file, call, vin, vout, events, nreceived,
          lst_events, notified, speaker, handles, tasks, btn_connect,
          btn_disconnect, btn_send_api, send_window, requested,
          window_show, run, msgbox, arguments, dialog>>

\* What a step of one component leaves alone.
settings_rest == <<validate_vars, event_vars, conn_vars, run_vars, dialog_vars>>

validate_rest == <<settings_vars, event_vars, conn_vars, run_vars, dialog_vars>>

event_rest == <<settings_vars, validate_vars, conn_vars, run_vars, dialog_vars>>

conn_rest == <<settings_vars, validate_vars, event_vars, run_vars, dialog_vars>>

\* What a step of the controls and of App.run leaves alone.
run_rest == <<settings_vars, validate_vars, event_vars, dialog_vars>>

\* What a step of the start-up leaves alone.
startup_rest == <<validate_vars, event_vars, conn_vars, dialog_vars>>

\* What a step of the argument dialog leaves alone.
dialog_rest == <<settings_vars, validate_vars, event_vars, conn_vars, window_show, run>>

---------------------------------------------------------------------------
(* Bounds of the model. *)

\* The longest host list a caller passes to the hosts setter.
MaxHosts == 2

\* The largest timeout_multiple an ApiCall under validation carries.
MaxTimeout == 7

\* The number of events the session delivers to App.event_receiver.
MaxReceived == 1002

\* The number of asyncio tasks the application creates.
MaxTasks == 3

---------------------------------------------------------------------------
(* Python values. *)

PyInt(n) == [t |-> "int", int |-> n]

PyStr(s) == [t |-> "str", str |-> s]

PyBool(b) == [t |-> "bool", bool |-> b]

PyList(items) == [t |-> "list", items |-> items]

PyTuple(items) == [t |-> "tuple", items |-> items]

PyNone == [t |-> "NoneType", none |-> TRUE]

\* An attribute that is annotated in the class body and never assigned:
\* reading it raises AttributeError.
Unset == [t |-> "unset", unset |-> TRUE]

\* isinstance(x, int): bool is a subclass of int.
IsInstanceInt(x) == x.t \in {"int", "bool"}

\* isinstance(x, bool)
IsInstanceBool(x) == x.t = "bool"

\* isinstance(x, str)
IsInstanceStr(x) == x.t = "str"

\* isinstance(x, list)
IsInstanceList(x) == x.t = "list"

\* isinstance(x, tuple)
IsInstanceTuple(x) == x.t = "tuple"

\* The number an int (or a bool: True is 1, False is 0) compares as.
IntValue(x) == IF x.t = "bool" THEN (IF x.bool THEN 1 ELSE 0) ELSE x.int

\* bool(x) is False: `not x` holds.
Falsy(x) ==
    CASE x.t = "NoneType" -> TRUE
      [] x.t = "bool" -> ~x.bool
      [] x.t = "int" -> x.int = 0
      [] x.t = "str" -> x.str = ""
      [] x.t \in {"list", "tuple"} -> Len(x.items) = 0
      [] OTHER -> FALSE

\* dict.get(key, default)
Get(d, key, default) == IF key \in DOMAIN d THEN d[key] ELSE default

\* d[key] = value
Put(d, key, value) ==
    [k \in (DOMAIN d) \cup {key} |-> IF k = key THEN value ELSE d[k]]

\* The empty dict {}.
EmptyDict == [k \in {} |-> 0]

---------------------------------------------------------------------------
(* settings.py *)

\* A Host is a NamedTuple (name, host, port): a 3-tuple.
Host(d) == <<d.name, d.host, d.port>>

\* Host._asdict(): the dict of a Host.
AsDict(h) == [name |-> h[1], host |-> h[2], port |-> h[3]]

\* What `host._asdict` (no call) evaluates to: the bound method, not a dict.
BoundAsDict(h) == [bound_method |-> "_asdict", self |-> h]

IsDict(x) == DOMAIN x = {"name", "host", "port"}

DefaultHostDict == [name |-> "Speaker", host |-> "192.168.1.100", port |-> 55001]

OtherHostDict == [name |-> "Kitchen", host |-> "192.168.1.101", port |-> 55001]

DEFAULT_SETTINGS ==
    [hosts |-> <<DefaultHostDict>>, loglevel |-> 1, default_host |-> 0]

\* The file on disk: absent, not parseable as JSON, or a JSON object.
FileAbsent == [kind |-> "absent"]

FileMalformed == [kind |-> "malformed"]

FileJson(doc) == [kind |-> "json", doc |-> doc]

\* str(err) of the JSONDecodeError that json.load raises on malformed content.
DecodeErrorText == "Expecting value"

\* A load that treats every failure as a missing file.
load_settings_all_default(file) ==
    IF file.kind \in {"absent", "malformed"} THEN DEFAULT_SETTINGS ELSE file.doc

\* Settings.load_settings: the document after loading `file`.
load_settings(file) ==
    CASE file.kind = "absent" -> DEFAULT_SETTINGS
      [] file.kind = "malformed" -> [ERROR |-> DecodeErrorText]
      [] OTHER -> file.doc

\* json.dump can serialize the document: every stored host is a dict.
Serializable(doc) ==
    LET stored == Get(doc, "hosts", <<>>)
    IN  \A i \in 1..Len(stored) : IsDict(stored[i])

\* Settings.save_settings: open(SETTINGS_FILE, "w") truncates the file, then
\* json.dump streams the document into it; a value that is not serializable
\* raises TypeError with the file left holding a prefix of the JSON text.
save_settings(doc) ==
    IF Serializable(doc)
    THEN [raised |-> "none", file |-> FileJson(doc)]
    ELSE [raised |-> "TypeError", file |-> FileMalformed]

\* Settings.error
error(doc) == Get(doc, "ERROR", "None")

\* Settings.hosts (getter): [Host(**host) for host in _settings.get("hosts", [])];
\* Host(**x) raises TypeError when x is not a mapping.
hosts(doc) ==
    LET stored == Get(doc, "hosts", <<>>)
    IN  IF \A i \in 1..Len(stored) : IsDict(stored[i])
        THEN [raised |-> "none", value |-> [i \in 1..Len(stored) |-> Host(stored[i])]]
        ELSE [raised |-> "TypeError", value |-> <<>>]

\* Settings.default_host (getter)
default_host(doc) == Get(doc, "default_host", 0)

\* Settings.loglevel (getter)
loglevel(doc) == Get(doc, "loglevel", 1)

\* What the hosts setter stores for a list of Host tuples.
StoredHosts(hs) == [i \in 1..Len(hs) |-> BoundAsDict(hs[i])]

\* A setter that passed validation: assign the key, then save_settings().
AssignAndSave(op, arg, key, value) ==
    LET doc == Put(settings, key, value)
        saved == save_settings(doc)
    IN  /\ settings' = doc
        /\ settings_file' = saved.file
        /\ call' = [op |-> op, arg |-> arg, raised |-> saved.raised]
        /\ UNCHANGED settings_rest

\* A setter whose validation raised: nothing is assigned, nothing is saved.
Reject(op, arg, exc) ==
    /\ call' = [op |-> op, arg |-> arg, raised |-> exc]
    /\ UNCHANGED <<settings, settings_file>>
    /\ UNCHANGED settings_rest

\* App.__init__ calls load_settings() right after Settings(): every other
\* call on the store comes after the first load.
Loaded == call.op # "__init__"

\* Settings.load_settings as a step of the program.
LoadSettings ==
    /\ settings' = load_settings(settings_file)
    /\ call' = [op |-> "load_settings", arg |-> PyStr(settings_file.kind), raised |-> "none"]
    /\ UNCHANGED settings_file
    /\ UNCHANGED settings_rest

\* Settings.hosts (setter)
hosts_setter(hs) ==
    /\ Loaded
    /\ AssignAndSave("hosts", [t |-> "list", items |-> hs], "hosts", StoredHosts(hs))

\* The test of line 73: default_host < 0 or default_host >= len(self.hosts).
\* `or` short-circuits, so self.hosts is read only for a value >= 0.
default_host_check(doc, n) ==
    IF n < 0 THEN "ValueError"
    ELSE IF hosts(doc).raised # "none" THEN hosts(doc).raised
    ELSE IF n >= Len(hosts(doc).value) THEN "ValueError"
    ELSE "none"

\* Settings.default_host (setter)
default_host_setter(x) ==
    /\ Loaded
    /\ IF x.t # "int" THEN Reject("default_host", x, "TypeError")
       ELSE IF default_host_check(settings, x.int) # "none"
            THEN Reject("default_host", x, default_host_check(settings, x.int))
       ELSE AssignAndSave("default_host", x, "default_host", x.int)

\* A range test that lets 5 through.
loglevel_check_upto5(n) == IF ~(-1 < n /\ n < 6) THEN "ValueError" ELSE "none"

\* The test of line 88: not -1 < loglevel < 5.
loglevel_check(n) == IF ~(-1 < n /\ n < 5) THEN "ValueError" ELSE "none"

\* Settings.loglevel (setter)
loglevel_setter(x) ==
    /\ Loaded
    /\ IF x.t # "int" THEN Reject("loglevel", x, "TypeError")
       ELSE IF loglevel_check(x.int) # "none"
            THEN Reject("loglevel", x, loglevel_check(x.int))
       ELSE AssignAndSave("loglevel", x, "loglevel", x.int)

---------------------------------------------------------------------------
(* The inputs of the settings store. *)

HostTuples == {Host(DefaultHostDict), Host(OtherHostDict)}

\* Lists of at most MaxHosts Host tuples.
HostLists == UNION {[1..n -> HostTuples] : n \in 0..MaxHosts}

\* Values handed to the integer setters: integers around both ranges, and a
\* value that is not an int.
SetterValues == {PyInt(n) : n \in -1..5} \cup {PyStr("1")}

\* Well-formed documents a settings file may hold at startup.
StartDocs ==
    {[hosts |-> hl, loglevel |-> l, default_host |-> d] :
        hl \in {<<DefaultHostDict>>, <<DefaultHostDict, OtherHostDict>>},
        l \in {0, 4}, d \in {0}}
    \cup {[hosts |-> <<DefaultHostDict, OtherHostDict>>, loglevel |-> 2, default_host |-> 1]}

StartFiles == {FileAbsent, FileMalformed} \cup {FileJson(d) : d \in StartDocs}

\* No validate_* method has been called.
NoValidation == [raised |-> "pending", msg |-> ""]

\* Events.new_event has not been called.
NotNotified == [event |-> 0, trunc |-> FALSE]

\* Nothing has been handed to a session's client.request.
NoRequest == [h |-> 0, api_call |-> PyNone]

\* App() has not returned: there is no window and App.run has not been called.
NotStarted == [pc |-> "App()", raised |-> "", h |-> 0]

\* No ArgumentsDialog is open.
NoDialog == [open |-> FALSE, result |-> PyTuple(<<PyStr(""), PyStr(""), PyStr("")>>)]

\* Settings.__init__: the document is the empty dict; nothing has been called.
SettingsInit ==
    /\ settings = EmptyDict
    /\ settings_file \in StartFiles
    /\ call = [op |-> "__init__", arg |-> PyStr(""), raised |-> "none"]
    /\ vin = [kind |-> "none"]
    /\ vout = NoValidation
    /\ events = Unset
    /\ nreceived = 0
    /\ lst_events = <<>>
    /\ notified = NotNotified
    /\ speaker = Unset
    /\ handles = <<>>
    /\ tasks = <<>>
    /\ btn_connect = "normal"
    /\ btn_disconnect = "disabled"
    /\ btn_send_api = "disabled"
    /\ send_window = FALSE
    /\ requested = NoRequest
    /\ window_show = FALSE
    /\ run = NotStarted
    /\ msgbox = ""
    /\ arguments = <<>>
    /\ dialog = NoDialog

SettingsNext ==
    \/ LoadSettings
    \/ \E hs \in HostLists : hosts_setter(hs)
    \/ \E x \in SetterValues : default_host_setter(x)
    \/ \E x \in SetterValues : loglevel_setter(x)

SpecSettings == SettingsInit /\ [][SettingsNext]_vars

---------------------------------------------------------------------------
(* Claims about the settings store, checked under SpecSettings. *)

SetterOps == {"hosts", "default_host", "loglevel"}

\* C7: in every state reached through load() and the setters, the document
\* satisfies 0 <= default_host < len(hosts) and 0 <= loglevel <= 4. Stated
\* here for the documents that carry no error marker and whose host list can
\* be read, which covers the claim's case of a host list replaced by a
\* shorter one.
C7_IndexInvariant ==
    (Loaded /\ error(settings) = "None" /\ hosts(settings).raised = "none")
        => /\ 0 <= default_host(settings)
           /\ default_host(settings) < Len(hosts(settings).value)
           /\ 0 <= loglevel(settings)
           /\ loglevel(settings) <= 4

\* C8: a default_host setter call with a value outside [0, len(hosts)), or a
\* loglevel setter call with a value outside [0, 4], raises ValueError, leaves
\* the in-memory document as it was and writes nothing to the settings file.
C8_RejectedSetterChangesNothing ==
    [][ ( /\ call'.op \in {"default_host", "loglevel"}
          /\ call'.arg.t = "int"
          /\ IF call'.op = "loglevel"
             THEN call'.arg.int < 0 \/ call'.arg.int > 4
             ELSE \/ call'.arg.int < 0
                  \/ /\ hosts(settings).raised = "none"
                     /\ call'.arg.int >= Len(hosts(settings).value) )
        => ( /\ call'.raised = "ValueError"
             /\ settings' = settings
             /\ settings_file' = settings_file ) ]_vars

\* C8 witness: a default_host call with an index one past a non-empty host
\* list was rejected, and so was the loglevel 5 in another run; this is the
\* default_host case.
C8_Witness ==
    /\ call.op = "default_host"
    /\ call.arg.t = "int"
    /\ hosts(settings).raised = "none"
    /\ Len(hosts(settings).value) > 0
    /\ call.arg.int = Len(hosts(settings).value)
    /\ call.raised = "ValueError"

\* C9: right after load(), a malformed file has given a document whose only
\* content is the error string (error set, hosts empty, default_host 0,
\* loglevel 1), and an absent file has given the built-in single-host default
\* (default_host 0, loglevel 1, no error).
C9_LoadFallbacks ==
    call.op = "load_settings" =>
        /\ settings_file.kind = "malformed" =>
              /\ DOMAIN settings = {"ERROR"}
              /\ error(settings) # "None"
              /\ hosts(settings) = [raised |-> "none", value |-> <<>>]
              /\ default_host(settings) = 0
              /\ loglevel(settings) = 1
        /\ settings_file.kind = "absent" =>
              /\ error(settings) = "None"
              /\ hosts(settings) =
                    [raised |-> "none",
                     value |-> << <<"Speaker", "192.168.1.100", 55001>> >>]
              /\ default_host(settings) = 0
              /\ loglevel(settings) = 1

\* C9 witness: load() has just run on a malformed file.
C9_Witness ==
    /\ call.op = "load_settings"
    /\ settings_file.kind = "malformed"
    /\ error(settings) = DecodeErrorText

\* C10: every setter is write-through: when a setter call has changed the
\* in-memory document, the settings file holds exactly that document when
\* the call ends.
C10_WriteThrough ==
    [][ (call'.op \in SetterOps /\ settings' # settings)
        => settings_file' = FileJson(settings') ]_vars

\* C18: after the hosts setter was called with a list of presets, the
\* document holds records that save() can write, and the hosts getter
\* returns the same presets (name, host, port) in the same order.
C18_HostsRoundTrip ==
    call.op = "hosts" =>
        /\ Serializable(settings)
        /\ hosts(settings).raised = "none"
        /\ hosts(settings).value = call.arg.items

---------------------------------------------------------------------------
(* app.py: validation of a user-composed API call and of its arguments. *)

Raise(exc, msg) == [raised |-> exc, msg |-> msg]

\* The method returned without raising.
Returned == [raised |-> "none", msg |-> ""]

\* api_call.api_type not in ("UIC", "CPM")
api_type_supported(x) == x.t = "str" /\ x.str \in {"UIC", "CPM"}

\* A limit test that rejects 5 as well.
timeout_too_high_from5(x) == IntValue(x) >= 5

\* api_call.timeout_multiple > 5
timeout_too_high(x) == IntValue(x) > 5

\* App.validate_api_call: the first failing test raises.
validate_api_call(c) ==
    IF ~api_type_supported(c.api_type)
        THEN Raise("ValueError", "API type not supported.")
    ELSE IF Falsy(c.method)
        THEN Raise("ValueError", "No method specified.")
    ELSE IF ~IsInstanceList(c.args)
        THEN Raise("TypeError", "args is not a list.")
    ELSE IF ~IsInstanceBool(c.pwron)
        THEN Raise("TypeError", "pwron is not a boolean.")
    ELSE IF ~IsInstanceBool(c.user_check)
        THEN Raise("TypeError", "user_check is not a boolean.")
    ELSE IF ~IsInstanceInt(c.timeout_multiple)
        THEN Raise("TypeError", "timeout_multiple is not an integer.")
    ELSE IF timeout_too_high(c.timeout_multiple)
        THEN Raise("ValueError", "timeout_multiple is too high.")
    ELSE Returned

\* A loop that looks at the first element only.
all_elements_int_first_only(items) == Len(items) = 0 \/ IsInstanceInt(items[1])

\* for value in args[1]: isinstance(value, int), for every element.
all_elements_int(items) == \A i \in 1..Len(items) : IsInstanceInt(items[i])

\* App.validate_api_call_arguments: the first failing test raises. The tests
\* on the value by declared type are four separate `if`s, of which exactly the
\* one of the declared type applies.
validate_api_call_arguments(a) ==
    IF ~IsInstanceTuple(a)
        THEN Raise("TypeError", "args is not a list of tuples.")
    ELSE IF Len(a.items) # 3
        THEN Raise("ValueError", "args is not a list of tuples of length 3.")
    ELSE IF ~IsInstanceStr(a.items[1])
        THEN Raise("TypeError", "Argument name is not a string.")
    ELSE IF Falsy(a.items[1])
        THEN Raise("ValueError", "Argument name cannot be empty.")
    ELSE IF ~IsInstanceStr(a.items[3])
        THEN Raise("TypeError", "Argument type is not a string.")
    ELSE IF a.items[3].str \notin {"str", "dec", "cdata", "dec_arr"}
        THEN Raise("ValueError", "Argument type not supported.")
    ELSE IF ~(IsInstanceStr(a.items[2]) \/ IsInstanceInt(a.items[2]) \/ IsInstanceList(a.items[2]))
        THEN Raise("TypeError", "Argument value is not a string, int, or list.")
    ELSE IF a.items[3].str = "dec_arr" /\ ~IsInstanceList(a.items[2])
        THEN Raise("TypeError", "Argument value is not a list.")
    ELSE IF a.items[3].str = "dec_arr" /\ ~all_elements_int(a.items[2].items)
        THEN Raise("TypeError", "Argument value is not a list of integers.")
    ELSE IF a.items[3].str = "dec" /\ ~IsInstanceInt(a.items[2])
        THEN Raise("TypeError", "Argument value is not an integer.")
    ELSE IF a.items[3].str = "str" /\ ~IsInstanceStr(a.items[2])
        THEN Raise("TypeError", "Argument value is not a string.")
    ELSE IF a.items[3].str = "cdata" /\ ~IsInstanceStr(a.items[2])
        THEN Raise("TypeError", "Argument value is not a string.")
    ELSE Returned

---------------------------------------------------------------------------
(* The inputs of the two validation methods. *)

\* ApiCall objects: each attribute with values that pass and values that fail.
ApiCalls ==
    [api_type : {PyStr("UIC"), PyStr("CPM"), PyStr("XYZ"), PyStr("")},
     method : {PyStr("GetVolume"), PyStr(""), PyNone},
     args : {PyList(<<>>), PyTuple(<<>>)},
     pwron : {PyBool(FALSE), PyInt(1)},
     user_check : {PyBool(TRUE), PyStr("yes")},
     expected_response : {PyStr("")},
     timeout_multiple : {PyInt(n) : n \in 0..MaxTimeout}
                        \cup {PyStr("5"), PyBool(TRUE), PyNone}]

ArgNames == {PyStr("vol"), PyStr("x"), PyStr(""), PyInt(1)}

ArgValues ==
    {PyInt(10), PyStr("10"), PyStr(""), PyBool(TRUE), PyNone,
     PyList(<<>>), PyList(<<PyInt(1), PyInt(2), PyInt(3)>>),
     PyList(<<PyInt(1), PyStr("a")>>), PyList(<<PyStr("a"), PyInt(1)>>)}

ArgTypes ==
    {PyStr("str"), PyStr("dec"), PyStr("cdata"), PyStr("dec_arr"),
     PyStr("hex"), PyStr(""), PyInt(0)}

\* What a caller may hand to validate_api_call_arguments: triples, tuples of
\* another length, and a list in place of the tuple.
Arguments ==
    {PyTuple(<<n, v, t>>) : n \in ArgNames, v \in ArgValues, t \in ArgTypes}
    \cup {PyTuple(<<PyStr("vol"), PyInt(10)>>),
          PyTuple(<<PyStr("vol"), PyInt(10), PyStr("dec"), PyStr("dec")>>),
          PyList(<<PyStr("vol"), PyInt(10), PyStr("dec")>>)}

\* An ApiCall or an argument has been composed; nothing is validated yet.
ValidateInit ==
    /\ vin \in {[kind |-> "call", api_call |-> c] : c \in ApiCalls}
               \cup {[kind |-> "argument", args |-> a] : a \in Arguments}
    /\ vout = NoValidation
    /\ settings = EmptyDict
    /\ settings_file = FileAbsent
    /\ call = [op |-> "__init__", arg |-> PyStr(""), raised |-> "none"]
    /\ events = Unset
    /\ nreceived = 0
    /\ lst_events = <<>>
    /\ notified = NotNotified
    /\ speaker = Unset
    /\ handles = <<>>
    /\ tasks = <<>>
    /\ btn_connect = "normal"
    /\ btn_disconnect = "disabled"
    /\ btn_send_api = "disabled"
    /\ send_window = FALSE
    /\ requested = NoRequest
    /\ window_show = FALSE
    /\ run = NotStarted
    /\ msgbox = ""
    /\ arguments = <<>>
    /\ dialog = NoDialog

\* App.validate_api_call(api_call)
ValidateApiCall ==
    /\ vin.kind = "call"
    /\ vout = NoValidation
    /\ vout' = validate_api_call(vin.api_call)
    /\ UNCHANGED vin
    /\ UNCHANGED validate_rest

\* App.validate_api_call_arguments(args)
ValidateApiCallArguments ==
    /\ vin.kind = "argument"
    /\ vout = NoValidation
    /\ vout' = validate_api_call_arguments(vin.args)
    /\ UNCHANGED vin
    /\ UNCHANGED validate_rest

ValidateNext ==
    \/ ValidateApiCall
    \/ ValidateApiCallArguments

SpecValidate == ValidateInit /\ [][ValidateNext]_vars

---------------------------------------------------------------------------
(* Claims about validation, checked under SpecValidate. "Integer" is       *)
(* Python's int, of which bool is a subclass: True passes where an int is  *)
(* asked for.                                                              *)

\* The seven constraints of validate_call, in the order they are tested.
CallViolations(c) ==
    << ~(c.api_type.t = "str" /\ c.api_type.str \in {"UIC", "CPM"}),
       Falsy(c.method),
       c.args.t # "list",
       c.pwron.t # "bool",
       c.user_check.t # "bool",
       c.timeout_multiple.t \notin {"int", "bool"},
       c.timeout_multiple.t = "int" /\ c.timeout_multiple.int > 5 >>

CallMessages ==
    << "API type not supported.", "No method specified.", "args is not a list.",
       "pwron is not a boolean.", "user_check is not a boolean.",
       "timeout_multiple is not an integer.", "timeout_multiple is too high." >>

\* C5: validate_call rejects a call exactly when one of the seven constraints
\* is violated and accepts every other call; the error is the one of the
\* first violated constraint, and the seven errors are pairwise distinct; a
\* call with timeout_multiple = 6 is rejected, and a call valid in everything
\* else with timeout_multiple = 5 is accepted.
C5_ValidateCall ==
    (vin.kind = "call" /\ vout # NoValidation) =>
        LET c == vin.api_call
            bad == CallViolations(c)
        IN  /\ (vout.raised = "none") <=> (\A i \in 1..7 : ~bad[i])
            /\ \A i \in 1..7 :
                  (bad[i] /\ \A j \in 1..(i - 1) : ~bad[j])
                      => (vout.raised # "none" /\ vout.msg = CallMessages[i])
            /\ \A i, j \in 1..7 : i # j => CallMessages[i] # CallMessages[j]
            /\ (c.timeout_multiple.t = "int" /\ c.timeout_multiple.int = 6)
                  => vout.raised # "none"
            /\ ( /\ c.timeout_multiple.t = "int" /\ c.timeout_multiple.int = 5
                 /\ \A i \in 1..5 : ~bad[i] )
                  => vout.raised = "none"

\* C5 witness: a call valid in everything else was rejected for its
\* timeout_multiple of 6.
C5_Witness ==
    /\ vin.kind = "call"
    /\ \A i \in 1..6 : ~CallViolations(vin.api_call)[i]
    /\ vin.api_call.timeout_multiple = PyInt(6)
    /\ vout = Raise("ValueError", "timeout_multiple is too high.")

\* The value's shape matches the declared type.
ShapeMatches(value, type) ==
    CASE type = "dec" -> value.t \in {"int", "bool"}
      [] type \in {"str", "cdata"} -> value.t = "str"
      [] type = "dec_arr" ->
            /\ value.t = "list"
            /\ \A i \in 1..Len(value.items) : value.items[i].t \in {"int", "bool"}
      [] OTHER -> FALSE

\* What the claim requires of an accepted argument.
ArgumentOk(a) ==
    /\ a.t = "tuple"
    /\ Len(a.items) = 3
    /\ a.items[1].t = "str" /\ a.items[1].str # ""
    /\ a.items[3].t = "str" /\ a.items[3].str \in {"str", "dec", "cdata", "dec_arr"}
    /\ ShapeMatches(a.items[2], a.items[3].str)

\* C6: validate_argument accepts a tuple exactly when it has 3 elements, a
\* non-empty string name, a type among str, dec, cdata, dec_arr, and a value
\* whose shape matches the type; everything else is rejected with an error.
\* (vol, 10, dec) and (x, [1,2,3], dec_arr) validate; (vol, "10", dec) and
\* (x, [1,"a"], dec_arr) are rejected.
C6_ValidateArgument ==
    (vin.kind = "argument" /\ vout # NoValidation) =>
        /\ (vout.raised = "none") <=> ArgumentOk(vin.args)
        /\ vout.raised \in {"none", "TypeError", "ValueError"}
        /\ vout.raised # "none" => vout.msg # ""
        /\ vin.args = PyTuple(<<PyStr("vol"), PyInt(10), PyStr("dec")>>)
              => vout.raised = "none"
        /\ vin.args = PyTuple(<<PyStr("x"), PyList(<<PyInt(1), PyInt(2), PyInt(3)>>),
                             PyStr("dec_arr")>>)
              => vout.raised = "none"
        /\ vin.args = PyTuple(<<PyStr("vol"), PyStr("10"), PyStr("dec")>>)
              => vout.raised = "TypeError"
        /\ vin.args = PyTuple(<<PyStr("x"), PyList(<<PyInt(1), PyStr("a")>>),
                             PyStr("dec_arr")>>)
              => vout.raised = "TypeError"

\* C6 witness: the triple (x, [1, "a"], dec_arr) was validated and rejected.
C6_Witness ==
    /\ vin.kind = "argument"
    /\ vin.args = PyTuple(<<PyStr("x"), PyList(<<PyInt(1), PyStr("a")>>), PyStr("dec_arr")>>)
    /\ vout = Raise("TypeError", "Argument value is not a list of integers.")

---------------------------------------------------------------------------
(* app.py and gui.py: the event history and the GUI event list. An event   *)
(* (an ApiResponse) is identified by its arrival number: the n-th call of  *)
(* event_receiver carries event n.                                         *)

\* The capacity of the history: len(self.events) > 1000.
HistoryCapacity == 1000

\* Events.new_event(event, trunc): insert a row at the end of the list box,
\* and delete row 0 when trunc is set.
new_event(rows, event, trunc) ==
    IF trunc THEN Tail(Append(rows, event)) ELSE Append(rows, event)

\* App.event_receiver(event). App.__init__ assigns only self.settings: the
\* class body annotates `events` without a value, so self.events raises
\* AttributeError until something assigns it, and nothing in the program does.
\* With a list in place the method appends, deletes entry 0 once the length
\* passes the capacity, and calls gui.events.new_event(event, trunc).
event_receiver(event) ==
    IF events.t = "unset"
    THEN /\ UNCHANGED <<events, lst_events, notified>>
    ELSE LET appended == Append(events.items, event)
             trunc == Len(appended) > HistoryCapacity
         IN  /\ events' = PyList(IF trunc THEN Tail(appended) ELSE appended)
             /\ lst_events' = new_event(lst_events, event, trunc)
             /\ notified' = [event |-> event, trunc |-> trunc]

\* The session's client calls the subscriber for the next event it receives.
EventReceived ==
    /\ nreceived < MaxReceived
    /\ nreceived' = nreceived + 1
    /\ event_receiver(nreceived + 1)
    /\ UNCHANGED event_rest

\* App.__init__, and Events.create_widgets for the empty list box.
EventInit ==
    /\ events = Unset
    /\ nreceived = 0
    /\ lst_events = <<>>
    /\ notified = NotNotified
    /\ settings = EmptyDict
    /\ settings_file = FileAbsent
    /\ call = [op |-> "__init__", arg |-> PyStr(""), raised |-> "none"]
    /\ vin = [kind |-> "none"]
    /\ vout = NoValidation
    /\ speaker = Unset
    /\ handles = <<>>
    /\ tasks = <<>>
    /\ btn_connect = "normal"
    /\ btn_disconnect = "disabled"
    /\ btn_send_api = "disabled"
    /\ send_window = FALSE
    /\ requested = NoRequest
    /\ window_show = FALSE
    /\ run = NotStarted
    /\ msgbox = ""
    /\ arguments = <<>>
    /\ dialog = NoDialog

EventNext == EventReceived

SpecEvents == EventInit /\ [][EventNext]_vars

---------------------------------------------------------------------------
(* Claims about the event history, checked under SpecEvents. *)

Min(a, b) == IF a < b THEN a ELSE b

\* The last k of the n events received so far, in arrival order.
LatestEvents(n, k) == [i \in 1..k |-> n - k + i]

\* C1: after the event callbacks received so far, the history holds the most
\* recently received events in arrival order, at most 1000 of them (so after
\* 1001 callbacks exactly 1000, the first one discarded).
C1_HistoryHoldsLatest ==
    nreceived > 0 =>
        /\ events.t = "list"
        /\ events.items = LatestEvents(nreceived, Min(nreceived, 1000))

\* C2: every event_receiver call notifies the GUI event panel of its event,
\* with the eviction flag true exactly when the call evicted the oldest
\* entry, which is on the 1001st call and every later one.
C2_NotifiedWithEvictionFlag ==
    nreceived > 0 =>
        /\ notified.event = nreceived
        /\ notified.trunc = (nreceived > 1000)

\* C17: after the event callbacks received so far, the GUI event list has
\* exactly one row per history entry and row i was created for history entry
\* i, also after evictions.
C17_ListMatchesHistory ==
    nreceived > 0 =>
        /\ events.t = "list"
        /\ Len(lst_events) = Len(events.items)
        /\ Len(lst_events) = Min(nreceived, 1000)
        /\ \A i \in 1..Len(lst_events) : lst_events[i] = events.items[i]

---------------------------------------------------------------------------
(* app.py and gui.py: the session handle, the asyncio tasks that connect,  *)
(* disconnect and send, and the header controls that start them. The       *)
(* Speaker and its client belong to the pywam library: each of their       *)
(* operations either succeeds or raises, and the model takes both.         *)

\* App.speaker holding the h-th Speaker constructed.
SpeakerObj(h) == [t |-> "Speaker", id |-> h]

\* The exceptions of reading self.speaker before any assignment, and of
\* reading an attribute of None.
NoSpeakerAttribute == "AttributeError: 'App' object has no attribute 'speaker'"

NoneHasNoAttribute == "AttributeError: 'NoneType' object has no attribute"

\* What `self.speaker.<attribute>` raises when self.speaker is no Speaker.
SpeakerAttributeError == IF speaker.t = "unset" THEN NoSpeakerAttribute ELSE NoneHasNoAttribute

\* aio_loop.create_task(coroutine): the task is ready and has not run.
NewTask(kind, api_call) ==
    [kind |-> kind, pc |-> "ready", h |-> 0, orig |-> "", raised |-> "",
     api_call |-> api_call]

create_task(kind, api_call) == tasks' = Append(tasks, NewTask(kind, api_call))

\* The event loop starts ready tasks in the order they were created.
CanStart(t) ==
    /\ tasks[t].pc = "ready"
    /\ \A u \in 1..(t - 1) : tasks[u].pc # "ready"

\* A Speaker as its constructor leaves it, with the subscribers registered so far.
NewHandle(subscribers) ==
    [state |-> "created", subscribers |-> subscribers, disconnect_called |-> FALSE]

\* The handle after its client.disconnect() returned (closed) or raised.
AfterDisconnect(h, ok) ==
    IF ok THEN [handles EXCEPT ![h].state = "closed"] ELSE handles

\* The handles once `task` has gone on: a task that stands at the await of
\* client.disconnect() has called it on its handle.
CallDisconnect(hs, task) ==
    IF task.pc \in {"await_cleanup", "await_disconnect"}
    THEN [hs EXCEPT ![task.h].disconnect_called = TRUE]
    ELSE hs

\* App.run is in Window.show or in its final disconnect: the event loop runs
\* the tasks. Once run has ended, asyncio.run cancels what is left.
LoopRunning == run.pc \in {"show", "await_disconnect"}

\* The window exists and Window.show dispatches the commands of its controls.
WindowOpen == window_show /\ run.pc = "show"

\* The `except Exception:` block of async_connect up to its first await, for
\* the failure `orig`, with self.speaker reading `spk`:
\*   if self.speaker:               (AttributeError when never assigned)
\*       await self.speaker.client.disconnect()   (suspends)
\*   raise                          (when self.speaker is None)
except_block(task, orig, spk) ==
    IF spk.t = "unset"
        THEN [task EXCEPT !.pc = "failed", !.orig = orig, !.raised = NoSpeakerAttribute]
    ELSE IF spk.t = "NoneType"
        THEN [task EXCEPT !.pc = "failed", !.orig = orig, !.raised = orig]
    ELSE [task EXCEPT !.pc = "await_cleanup", !.orig = orig, !.h = spk.id]

\* async_connect from its start to its first await: Speaker(ip, port), the two
\* register_subscriber calls, and the call of self.speaker.connect().
ConnectStart(t) ==
    /\ tasks[t].kind = "connect"
    /\ LoopRunning
    /\ CanStart(t)
    /\ \E outcome \in {"Speaker() raised", "events.register_subscriber() raised",
                       "client.register_subscriber() raised", "ok"} :
          IF outcome = "Speaker() raised"
          THEN /\ tasks' = [tasks EXCEPT ![t] = except_block(tasks[t], outcome, speaker)]
               /\ UNCHANGED <<speaker, handles>>
          ELSE LET h == Len(handles) + 1
                   task == IF outcome = "ok"
                           THEN [tasks[t] EXCEPT !.pc = "await_connect", !.h = h]
                           ELSE except_block(tasks[t], outcome, SpeakerObj(h))
               IN  /\ speaker' = SpeakerObj(h)
                   /\ handles' = CallDisconnect(Append(handles,
                         NewHandle(CASE outcome = "events.register_subscriber() raised" -> 0
                                     [] outcome = "client.register_subscriber() raised" -> 1
                                     [] OTHER -> 2)), task)
                   /\ tasks' = [tasks EXCEPT ![t] = task]
    /\ UNCHANGED <<btn_connect, btn_disconnect, btn_send_api, send_window, requested>>
    /\ UNCHANGED conn_rest

\* async_connect resumed after `await self.speaker.connect()`: on success it
\* reads self.speaker again and calls update() on it.
ConnectResume(t) ==
    /\ tasks[t].kind = "connect"
    /\ tasks[t].pc = "await_connect"
    /\ LoopRunning
    /\ \E ok \in BOOLEAN :
          LET task == IF ~ok THEN except_block(tasks[t], "connect() raised", speaker)
                      ELSE IF speaker.t = "Speaker"
                      THEN [tasks[t] EXCEPT !.pc = "await_update", !.h = speaker.id]
                      ELSE except_block(tasks[t], SpeakerAttributeError, speaker)
          IN  /\ handles' = CallDisconnect(
                    IF ok THEN [handles EXCEPT ![tasks[t].h].state = "connected"]
                    ELSE handles, task)
              /\ tasks' = [tasks EXCEPT ![t] = task]
    /\ UNCHANGED <<speaker, btn_connect, btn_disconnect, btn_send_api, send_window,
                   requested>>
    /\ UNCHANGED conn_rest

\* async_connect resumed after `await self.speaker.update()`.
UpdateResume(t) ==
    /\ tasks[t].kind = "connect"
    /\ tasks[t].pc = "await_update"
    /\ LoopRunning
    /\ \E ok \in BOOLEAN :
          LET task == IF ok THEN [tasks[t] EXCEPT !.pc = "done"]
                      ELSE except_block(tasks[t], "update() raised", speaker)
          IN  /\ handles' = CallDisconnect(handles, task)
              /\ tasks' = [tasks EXCEPT ![t] = task]
    /\ UNCHANGED <<speaker, btn_connect, btn_disconnect, btn_send_api,
                   send_window, requested>>
    /\ UNCHANGED conn_rest

\* The except block resumed after its `await self.speaker.client.disconnect()`,
\* whose exception is suppressed: self.speaker = None, then `raise`.
CleanupResume(t) ==
    /\ tasks[t].kind = "connect"
    /\ tasks[t].pc = "await_cleanup"
    /\ LoopRunning
    /\ \E ok \in BOOLEAN : handles' = AfterDisconnect(tasks[t].h, ok)
    /\ speaker' = PyNone
    /\ tasks' = [tasks EXCEPT ![t] =
          [tasks[t] EXCEPT !.pc = "failed", !.raised = tasks[t].orig]]
    /\ UNCHANGED <<btn_connect, btn_disconnect, btn_send_api, send_window, requested>>
    /\ UNCHANGED conn_rest

\* async_disconnect from its start: self.speaker.client.disconnect() is called
\* and awaited; with no Speaker the AttributeError is suppressed.
DisconnectStart(t) ==
    /\ tasks[t].kind = "disconnect"
    /\ LoopRunning
    /\ CanStart(t)
    /\ IF speaker.t = "Speaker"
       THEN /\ tasks' = [tasks EXCEPT ![t] =
                  [tasks[t] EXCEPT !.pc = "await_disconnect", !.h = speaker.id]]
            /\ handles' = [handles EXCEPT ![speaker.id].disconnect_called = TRUE]
            /\ UNCHANGED speaker
       ELSE /\ tasks' = [tasks EXCEPT ![t] = [tasks[t] EXCEPT !.pc = "done"]]
            /\ speaker' = PyNone
            /\ UNCHANGED handles
    /\ UNCHANGED <<btn_connect, btn_disconnect, btn_send_api, send_window,
                   requested>>
    /\ UNCHANGED conn_rest

\* A resumption that ends the task and leaves App.speaker as it is.
DisconnectResume_keeps_handle(t) ==
    /\ tasks[t].kind = "disconnect"
    /\ tasks[t].pc = "await_disconnect"
    /\ LoopRunning
    /\ \E ok \in BOOLEAN : handles' = AfterDisconnect(tasks[t].h, ok)
    /\ tasks' = [tasks EXCEPT ![t] = [tasks[t] EXCEPT !.pc = "done"]]
    /\ UNCHANGED <<speaker, btn_connect, btn_disconnect, btn_send_api, send_window,
                   requested>>
    /\ UNCHANGED conn_rest

\* async_disconnect resumed after the await: self.speaker = None.
DisconnectResume(t) ==
    /\ tasks[t].kind = "disconnect"
    /\ tasks[t].pc = "await_disconnect"
    /\ LoopRunning
    /\ \E ok \in BOOLEAN : handles' = AfterDisconnect(tasks[t].h, ok)
    /\ speaker' = PyNone
    /\ tasks' = [tasks EXCEPT ![t] = [tasks[t] EXCEPT !.pc = "done"]]
    /\ UNCHANGED <<btn_connect, btn_disconnect, btn_send_api, send_window, requested>>
    /\ UNCHANGED conn_rest

\* async_send_api from its start: self.speaker.client.request(api_call) hands
\* the call to the session and is awaited.
SendStart(t) ==
    /\ tasks[t].kind = "send"
    /\ LoopRunning
    /\ CanStart(t)
    /\ IF speaker.t = "Speaker"
       THEN /\ requested' = [h |-> speaker.id, api_call |-> tasks[t].api_call]
            /\ tasks' = [tasks EXCEPT ![t] =
                  [tasks[t] EXCEPT !.pc = "await_request", !.h = speaker.id]]
       ELSE /\ tasks' = [tasks EXCEPT ![t] =
                  [tasks[t] EXCEPT !.pc = "failed", !.raised = SpeakerAttributeError]]
            /\ UNCHANGED requested
    /\ UNCHANGED <<speaker, handles, btn_connect, btn_disconnect, btn_send_api,
                   send_window>>
    /\ UNCHANGED conn_rest

\* async_send_api resumed after `await self.speaker.client.request(api_call)`.
SendResume(t) ==
    /\ tasks[t].kind = "send"
    /\ tasks[t].pc = "await_request"
    /\ LoopRunning
    /\ \E ok \in BOOLEAN :
          tasks' = [tasks EXCEPT ![t] =
              IF ok THEN [tasks[t] EXCEPT !.pc = "done"]
              ELSE [tasks[t] EXCEPT !.pc = "failed", !.raised = "request() raised"]]
    /\ UNCHANGED <<speaker, handles, btn_connect, btn_disconnect, btn_send_api,
                   send_window, requested>>
    /\ UNCHANGED conn_rest

\* The widget states Header.disconnect sets (lines 185-190).
DisconnectedButtons ==
    /\ btn_connect' = "normal"
    /\ btn_disconnect' = "disabled"
    /\ btn_send_api' = "disabled"

\* Header.connect, the command of the Connect button: the controls switch to
\* their connected states, then App.connect creates the task. int() of a port
\* entry that is no number raises ValueError, which is shown and followed by
\* Header.disconnect().
HeaderConnect ==
    /\ WindowOpen
    /\ btn_connect = "normal"
    /\ Len(tasks) < MaxTasks
    /\ \E port_is_number \in BOOLEAN :
          IF port_is_number
          THEN /\ create_task("connect", PyNone)
               /\ btn_connect' = "disabled"
               /\ btn_disconnect' = "normal"
               /\ btn_send_api' = "normal"
               /\ UNCHANGED msgbox
          ELSE /\ msgbox' = "ValueError: invalid literal for int()"
               /\ create_task("disconnect", PyNone)
               /\ DisconnectedButtons
    /\ UNCHANGED <<speaker, handles, send_window, requested, window_show, run>>
    /\ UNCHANGED run_rest

\* Header.disconnect, the command of the Disconnect button.
HeaderDisconnect ==
    /\ WindowOpen
    /\ btn_disconnect = "normal"
    /\ Len(tasks) < MaxTasks
    /\ create_task("disconnect", PyNone)
    /\ DisconnectedButtons
    /\ UNCHANGED <<speaker, handles, send_window, requested>>
    /\ UNCHANGED conn_rest

\* Header.show_send_api, the command of the Send API button: opens the window
\* unless one is open.
ShowSendApi ==
    /\ WindowOpen
    /\ btn_send_api = "normal"
    /\ ~send_window
    /\ send_window' = TRUE
    /\ UNCHANGED <<speaker, handles, tasks, btn_connect, btn_disconnect,
                   btn_send_api, requested>>
    /\ UNCHANGED conn_rest

\* SendApiWindows.destroy, the command of its Cancel button.
SendApiDestroy ==
    /\ WindowOpen
    /\ send_window
    /\ send_window' = FALSE
    /\ UNCHANGED <<speaker, handles, tasks, btn_connect, btn_disconnect,
                   btn_send_api, requested>>
    /\ UNCHANGED conn_rest

\* What the user has put into the form when Send is clicked, as (type, method,
\* timeout): the type combo box is empty until a type is picked, the method
\* entry and the timeout spin box take any text and start empty.
FormContents ==
    {<<"UIC", "GetVolume", "5">>, <<"", "GetVolume", "5">>, <<"UIC", "", "5">>,
     <<"UIC", "GetVolume", "6">>, <<"UIC", "GetVolume", "">>}

\* int(text) for the texts above: the number, or ValueError.
int(text) ==
    CASE text = "5" -> [raised |-> "none", value |-> 5]
      [] text = "6" -> [raised |-> "none", value |-> 6]
      [] OTHER -> [raised |-> "ValueError", value |-> 0]

\* ApiCall(...) as App.send_api builds it from the values of the form.
ApiCall(api_type, method, pwron, args, expected_response, user_check, timeout) ==
    [api_type |-> PyStr(api_type), method |-> PyStr(method),
     pwron |-> PyBool(pwron), args |-> PyList(args),
     expected_response |-> PyStr(expected_response),
     user_check |-> PyBool(user_check), timeout_multiple |-> PyInt(timeout)]

\* SendApiWindows.send_api, the command of the Send button, and App.send_api:
\* the values are read from the widgets, int() of the spin box text may raise
\* (nothing is sent then), the ApiCall is built and the task created.
SendApi ==
    /\ WindowOpen
    /\ send_window
    /\ Len(tasks) < MaxTasks
    /\ \E form \in FormContents :
          IF int(form[3]).raised = "none"
          THEN create_task("send",
                  ApiCall(form[1], form[2], FALSE, <<>>, "", FALSE, int(form[3]).value))
          ELSE UNCHANGED tasks
    /\ UNCHANGED <<speaker, handles, btn_connect, btn_disconnect, btn_send_api,
                   send_window, requested>>
    /\ UNCHANGED conn_rest

\* Window.close, the WM_DELETE_WINDOW handler: the driver loop is told to
\* stop and the window is destroyed, its Send API window with it.
WindowClose ==
    /\ WindowOpen
    /\ window_show' = FALSE
    /\ send_window' = FALSE
    /\ UNCHANGED <<speaker, handles, tasks, btn_connect, btn_disconnect,
                   btn_send_api, requested, run, msgbox>>
    /\ UNCHANGED run_rest

\* App.run after `await self.gui.show()` has returned (lines 36-37):
\*   if self.speaker:               (AttributeError when never assigned)
\*       await self.async_disconnect()   (calls client.disconnect(), suspends)
ShowReturn ==
    /\ run.pc = "show"
    /\ ~window_show
    /\ IF speaker.t = "unset"
       THEN /\ run' = [run EXCEPT !.pc = "raised", !.raised = NoSpeakerAttribute]
            /\ UNCHANGED handles
       ELSE IF speaker.t = "Speaker"
       THEN /\ run' = [run EXCEPT !.pc = "await_disconnect", !.h = speaker.id]
            /\ handles' = [handles EXCEPT ![speaker.id].disconnect_called = TRUE]
       ELSE /\ run' = [run EXCEPT !.pc = "returned"]
            /\ UNCHANGED handles
    /\ UNCHANGED <<speaker, tasks, btn_connect, btn_disconnect, btn_send_api,
                   send_window, requested, window_show, msgbox>>
    /\ UNCHANGED run_rest

\* The async_disconnect that App.run awaits, resumed: the exception of
\* client.disconnect() is suppressed, self.speaker = None, and run returns.
RunDisconnectResume ==
    /\ run.pc = "await_disconnect"
    /\ \E ok \in BOOLEAN : handles' = AfterDisconnect(run.h, ok)
    /\ speaker' = PyNone
    /\ run' = [run EXCEPT !.pc = "returned"]
    /\ UNCHANGED <<tasks, btn_connect, btn_disconnect, btn_send_api, send_window,
                   requested, window_show, msgbox>>
    /\ UNCHANGED run_rest

\* App.__init__ and Header.set_up_widgets: no attribute `speaker`, no task,
\* Disconnect and Send API disabled; App.run is in Window.show.
ConnInit ==
    /\ speaker = Unset
    /\ handles = <<>>
    /\ tasks = <<>>
    /\ btn_connect = "normal"
    /\ btn_disconnect = "disabled"
    /\ btn_send_api = "disabled"
    /\ send_window = FALSE
    /\ requested = NoRequest
    /\ settings = EmptyDict
    /\ settings_file = FileAbsent
    /\ call = [op |-> "__init__", arg |-> PyStr(""), raised |-> "none"]
    /\ vin = [kind |-> "none"]
    /\ vout = NoValidation
    /\ events = Unset
    /\ nreceived = 0
    /\ lst_events = <<>>
    /\ notified = NotNotified
    /\ window_show = TRUE
    /\ run = [pc |-> "show", raised |-> "", h |-> 0]
    /\ msgbox = ""
    /\ arguments = <<>>
    /\ dialog = NoDialog

ConnNext ==
    \/ HeaderConnect
    \/ HeaderDisconnect
    \/ ShowSendApi
    \/ SendApiDestroy
    \/ SendApi
    \/ WindowClose
    \/ ShowReturn
    \/ RunDisconnectResume
    \/ \E t \in 1..Len(tasks) : ConnectStart(t)
    \/ \E t \in 1..Len(tasks) : ConnectResume(t)
    \/ \E t \in 1..Len(tasks) : UpdateResume(t)
    \/ \E t \in 1..Len(tasks) : CleanupResume(t)
    \/ \E t \in 1..Len(tasks) : DisconnectStart(t)
    \/ \E t \in 1..Len(tasks) : DisconnectResume(t)
    \/ \E t \in 1..Len(tasks) : SendStart(t)
    \/ \E t \in 1..Len(tasks) : SendResume(t)

SpecConn == ConnInit /\ [][ConnNext]_vars

---------------------------------------------------------------------------
(* Claims about connecting and sending, checked under SpecConn. *)

\* Task t of the next state has just ended by raising.
JustFailed(t) ==
    /\ tasks'[t].pc = "failed"
    /\ t <= Len(tasks) => tasks[t].pc # "failed"

\* C3: when async_connect fails at any step, then at the moment it ends the
\* session handle is unset (no Speaker is held) and the exception raised to
\* the caller is the original failure.
C3_FailedConnectRollsBack ==
    [][ \A t \in 1..Len(tasks') :
          (tasks'[t].kind = "connect" /\ JustFailed(t))
              => /\ speaker'.t # "Speaker"
                 /\ tasks'[t].raised = tasks'[t].orig ]_vars

\* C4: every call handed to a session's request operation satisfies the
\* validate_call rules.
C4_OnlyValidCallsDispatched ==
    requested.h # 0 => validate_api_call(requested.api_call) = Returned

\* A handle is live: its connect() has returned and nobody has called
\* client.disconnect() on it.
Live(h) == handles[h].state = "connected" /\ ~handles[h].disconnect_called

\* C11: under any interleaving of the Connect and Disconnect commands with
\* the connect and disconnect tasks, every live session handle is the one
\* App.speaker holds (so at most one is live): no handle stays connected
\* after the mediator has cleared or replaced its reference to it.
C11_LiveHandleIsHeld ==
    \A h \in 1..Len(handles) :
        Live(h) => (speaker.t = "Speaker" /\ speaker.id = h)

\* Nothing has been done to the header since task t was created: every later
\* task is a send.
LastHeaderTask(t) == \A u \in (t + 1)..Len(tasks) : tasks[u].kind = "send"

\* C12: when a connection attempt has failed because connect() or update()
\* raised, the error has been shown to the user and the controls are back in
\* their disconnected states: Connect enabled, Disconnect and Send API
\* disabled.
C12_FailedConnectRollsBackGui ==
    \A t \in 1..Len(tasks) :
        ( /\ tasks[t].kind = "connect"
          /\ tasks[t].pc = "failed"
          /\ tasks[t].orig \in {"connect() raised", "update() raised"}
          /\ LastHeaderTask(t)
          /\ window_show )
        => /\ msgbox # ""
           /\ btn_connect = "normal"
           /\ btn_disconnect = "disabled"
           /\ btn_send_api = "disabled"

\* C14: async_disconnect never raises and ends with App.speaker cleared,
\* with a handle or without one, whether closing it raises or not; started
\* when no handle is held it ends at once, touches no handle, and leaves a
\* cleared App.speaker as it is.
C14_DisconnectClearsAndNeverRaises ==
    [][ /\ \A t \in 1..Len(tasks) :
              tasks[t].kind = "disconnect" =>
                  /\ tasks'[t].pc # "failed"
                  /\ (tasks[t].pc # "done" /\ tasks'[t].pc = "done")
                        => speaker'.t = "NoneType"
                  /\ (tasks[t].pc = "ready" /\ tasks'[t].pc # "ready"
                         /\ speaker.t # "Speaker")
                        => /\ tasks'[t].pc = "done"
                           /\ handles' = handles
                           /\ speaker.t = "NoneType" => speaker' = speaker
        /\ (run.pc = "await_disconnect" /\ run'.pc # "await_disconnect")
              => (run'.pc = "returned" /\ speaker'.t = "NoneType") ]_vars

\* C14 witness: one async_disconnect has ended on a handle whose closing
\* raised, another has ended having found no handle, and App.speaker is None.
C14_Witness ==
    /\ speaker.t = "NoneType"
    /\ \E t, u \in 1..Len(tasks) :
          /\ tasks[t].kind = "disconnect" /\ tasks[t].pc = "done" /\ tasks[t].h = 0
          /\ tasks[u].kind = "disconnect" /\ tasks[u].pc = "done" /\ tasks[u].h # 0
          /\ handles[tasks[u].h].state # "closed"

\* Task t is a connect or disconnect sequence suspended at an await.
InFlight(t) ==
    /\ tasks[t].kind \in {"connect", "disconnect"}
    /\ tasks[t].pc \in {"await_connect", "await_update", "await_cleanup",
                        "await_disconnect"}

\* C16: at most one connect or disconnect sequence is in flight, and while
\* one is, neither the Connect nor the Disconnect control is enabled.
C16_OneSequenceInFlight ==
    /\ \A t, u \in 1..Len(tasks) : (InFlight(t) /\ InFlight(u)) => t = u
    /\ (window_show /\ \E t \in 1..Len(tasks) : InFlight(t))
          => (btn_connect = "disabled" /\ btn_disconnect = "disabled")

\* C19: once the window is closed App.run ends without an exception, and
\* when it has returned App.speaker holds no session handle.
C19_RunTerminatesNormally ==
    /\ run.pc # "raised"
    /\ run.pc = "returned" => speaker.t # "Speaker"

---------------------------------------------------------------------------
(* app.py and gui.py: the start-up, from App() to the call of Window.show. *)
(* The header is the first panel Window.__init__ builds, and building it   *)
(* reads the settings; the settings error is looked at after all panels.   *)

\* The number of entries of LOGLEVELS, the values of the log level box.
NumLoglevels == 5

\* ttk.Combobox.current(index) on a box with n values: an index outside the
\* values raises TclError.
current(n, index) ==
    IF index < 0 \/ index >= n THEN "TclError: Index out of range" ELSE "none"

\* The stored form of a list of Host tuples as a settings file holds it.
HostDicts(hs) == [i \in 1..Len(hs) |-> AsDict(hs[i])]

\* The settings files the application may find when it starts: none, one
\* that is not JSON, documents with one or two hosts, and a document that
\* carries an ERROR entry next to its hosts.
StartupFiles ==
    {FileAbsent, FileMalformed}
    \cup {FileJson([hosts |-> HostDicts(hs), loglevel |-> l, default_host |-> d]) :
            hs \in HostLists \ {<<>>}, l \in 0..NumLoglevels, d \in 0..(MaxHosts - 1)}
    \cup {FileJson([ERROR |-> "edited", hosts |-> <<DefaultHostDict>>])}

\* App(): Settings() and load_settings() (app.py:26-29); then asyncio.run
\* enters App.run, which is about to build the Window.
AppInit ==
    /\ run.pc = "App()"
    /\ settings' = load_settings(settings_file)
    /\ call' = [op |-> "load_settings", arg |-> PyStr(settings_file.kind), raised |-> "none"]
    /\ run' = [run EXCEPT !.pc = "Window()"]
    /\ UNCHANGED <<settings_file, window_show, msgbox>>
    /\ UNCHANGED startup_rest

\* Window.__init__ up to the panels (lines 53-58): self._show = True.
WindowInit ==
    /\ run.pc = "Window()"
    /\ window_show' = TRUE
    /\ run' = [run EXCEPT !.pc = "Header()"]
    /\ UNCHANGED <<settings, settings_file, call, msgbox>>
    /\ UNCHANGED startup_rest

\* Header.__init__, that is Header.create_widgets (the buttons end disabled
\* as set_up_widgets leaves them):
\*   values=[spk.name for spk in settings.hosts]
\*   cbx_name.current(settings.default_host); select_speaker(None)
\*   cbx_loglevel.current(settings.loglevel); select_loglevel(None)
\* select_speaker and select_loglevel assign the selected index back through
\* the setters, each of which saves. An exception leaves Window.__init__,
\* App.run and the program.
HeaderInit ==
    /\ run.pc = "Header()"
    /\ LET names == hosts(settings)
           d == default_host(settings)
           doc1 == Put(settings, "default_host", d)
           l == loglevel(doc1)
           doc2 == Put(doc1, "loglevel", l)
       IN  IF names.raised # "none"
           THEN /\ run' = [run EXCEPT !.pc = "raised", !.raised = names.raised]
                /\ UNCHANGED <<settings, settings_file, call>>
           ELSE IF current(Len(names.value), d) # "none"
           THEN /\ run' = [run EXCEPT !.pc = "raised",
                                      !.raised = current(Len(names.value), d)]
                /\ UNCHANGED <<settings, settings_file, call>>
           ELSE IF current(NumLoglevels, l) # "none"
           THEN /\ run' = [run EXCEPT !.pc = "raised",
                                      !.raised = current(NumLoglevels, l)]
                /\ settings' = doc1
                /\ settings_file' = save_settings(doc1).file
                /\ call' = [op |-> "default_host", arg |-> PyInt(d), raised |-> "none"]
           ELSE /\ run' = [run EXCEPT !.pc = "settings.error"]
                /\ settings' = doc2
                /\ settings_file' = save_settings(doc2).file
                /\ call' = [op |-> "loglevel", arg |-> PyInt(l), raised |-> "none"]
    /\ UNCHANGED <<window_show, msgbox>>
    /\ UNCHANGED startup_rest

\* The end of Window.__init__ (lines 70-72): with a settings error the
\* message is shown and the window closed. App.run goes on to Window.show.
ShowSettingsError ==
    /\ run.pc = "settings.error"
    /\ IF error(settings) # "None"
       THEN /\ msgbox' = error(settings)
            /\ window_show' = FALSE
       ELSE UNCHANGED <<msgbox, window_show>>
    /\ run' = [run EXCEPT !.pc = "show()"]
    /\ UNCHANGED <<settings, settings_file, call>>
    /\ UNCHANGED startup_rest

\* Window.show up to its loop (lines 77-78): self.update() on a window that
\* was destroyed raises TclError.
ShowStart ==
    /\ run.pc = "show()"
    /\ run' = IF window_show THEN [run EXCEPT !.pc = "show"]
              ELSE [run EXCEPT !.pc = "raised",
                               !.raised = "TclError: application has been destroyed"]
    /\ UNCHANGED <<settings, settings_file, call, window_show, msgbox>>
    /\ UNCHANGED startup_rest

\* The program is started: no App object yet.
StartupInit ==
    /\ settings = EmptyDict
    /\ settings_file \in StartupFiles
    /\ call = [op |-> "__init__", arg |-> PyStr(""), raised |-> "none"]
    /\ window_show = FALSE
    /\ run = NotStarted
    /\ msgbox = ""
    /\ vin = [kind |-> "none"]
    /\ vout = NoValidation
    /\ events = Unset
    /\ nreceived = 0
    /\ lst_events = <<>>
    /\ notified = NotNotified
    /\ speaker = Unset
    /\ handles = <<>>
    /\ tasks = <<>>
    /\ btn_connect = "normal"
    /\ btn_disconnect = "disabled"
    /\ btn_send_api = "disabled"
    /\ send_window = FALSE
    /\ requested = NoRequest
    /\ arguments = <<>>
    /\ dialog = NoDialog

StartupNext ==
    \/ AppInit
    \/ WindowInit
    \/ HeaderInit
    \/ ShowSettingsError
    \/ ShowStart

SpecStartup == StartupInit /\ [][StartupNext]_vars

---------------------------------------------------------------------------
(* Claims about the start-up, checked under SpecStartup. *)

\* C13: when load() ended in the error state on a malformed settings file,
\* no start-up step raises before the settings error is looked at, and once
\* Window.__init__ is through the error message has been shown and the
\* window closed.
C13_SettingsErrorShown ==
    (Loaded /\ settings_file.kind = "malformed") =>
        /\ run.pc # "raised"
        /\ run.pc = "show()" => (msgbox = error(settings) /\ ~window_show)

---------------------------------------------------------------------------
(* gui.py: the Send API window's argument list and the ArgumentsDialog.    *)
(* The text of an entry is a sequence of characters, so that strip, split  *)
(* and int are computed on it.                                             *)

\* The longest text typed into the value entry of the dialog.
MaxText == 3

\* The most arguments added to one composed call.
MaxArguments == 2

\* The characters typed: a digit, a letter, the separator and a blank.
Chars == {"1", "a", ",", " "}

Texts == UNION {[1..n -> Chars] : n \in 0..MaxText}

\* The texts typed into the name entry.
NameTexts == UNION {[1..n -> {"a", " "}] : n \in 0..1}

\* What the type combo box returns: "" until a type is picked.
TypeChoices == {"", "str", "dec", "cdata", "dec_arr"}

DigitChars == <<"0", "1", "2", "3", "4", "5", "6", "7", "8", "9">>

IsDigit(c) == \E i \in 1..10 : DigitChars[i] = c

DigitValue(c) == (CHOOSE i \in 1..10 : DigitChars[i] = c) - 1

RECURSIVE lstrip(_)
\* str.lstrip()
lstrip(cs) == IF cs # <<>> /\ cs[1] = " " THEN lstrip(Tail(cs)) ELSE cs

RECURSIVE rstrip(_)
\* str.rstrip()
rstrip(cs) ==
    IF cs # <<>> /\ cs[Len(cs)] = " " THEN rstrip(SubSeq(cs, 1, Len(cs) - 1)) ELSE cs

\* str.strip()
strip(cs) == rstrip(lstrip(cs))

RECURSIVE split(_)
\* str.split(","): the pieces between the commas; a text without a comma is
\* one piece, the empty text one empty piece.
split(cs) ==
    IF \A i \in 1..Len(cs) : cs[i] # ","
    THEN <<cs>>
    ELSE LET i == CHOOSE k \in 1..Len(cs) :
                      cs[k] = "," /\ \A j \in 1..(k - 1) : cs[j] # ","
         IN  <<SubSeq(cs, 1, i - 1)>> \o split(SubSeq(cs, i + 1, Len(cs)))

RECURSIVE Digits(_)
\* The number a sequence of digits denotes.
Digits(cs) ==
    IF cs = <<>> THEN 0 ELSE 10 * Digits(SubSeq(cs, 1, Len(cs) - 1)) + DigitValue(cs[Len(cs)])

\* int(text) of a typed text: blanks around the number are ignored, a sign
\* may precede the digits; anything else raises ValueError.
int_of_chars(cs) ==
    LET body == strip(cs)
        signed == body # <<>> /\ body[1] \in {"+", "-"}
        digits == IF signed THEN Tail(body) ELSE body
    IN  IF digits = <<>> \/ \E i \in 1..Len(digits) : ~IsDigit(digits[i])
        THEN [raised |-> "ValueError", value |-> 0]
        ELSE [raised |-> "none",
              value |-> IF signed /\ body[1] = "-" THEN 0 - Digits(digits) ELSE Digits(digits)]

RECURSIVE Join(_)
\* The str of a sequence of characters.
Join(cs) == IF cs = <<>> THEN "" ELSE cs[1] \o Join(Tail(cs))

\* The value ArgumentsDialog.add_argument derives from the value entry for
\* the selected type (lines 666-674): a list of ints for dec_arr, an int for
\* dec, the stripped text otherwise, and "" when the conversion raised.
dialog_value(value_text, value_type) ==
    IF value_type = "dec_arr"
    THEN LET pieces == split(value_text)
         IN  IF \E i \in 1..Len(pieces) : int_of_chars(pieces[i]).raised # "none"
             THEN PyStr("")
             ELSE PyList([i \in 1..Len(pieces) |-> PyInt(int_of_chars(pieces[i]).value)])
    ELSE IF value_type = "dec"
    THEN IF int_of_chars(strip(value_text)).raised # "none"
         THEN PyStr("")
         ELSE PyInt(int_of_chars(strip(value_text)).value)
    ELSE PyStr(Join(strip(value_text)))

\* The rest of SendApiWindows.add_argument once the dialog is gone (lines
\* 566-573): `if args := add_argument_dialog.result:` appends a result that
\* is truthy.
append_result(result) ==
    arguments' = IF Falsy(result) THEN arguments ELSE Append(arguments, result)

\* SendApiWindows.add_argument, the command of the Add arg. button, up to the
\* dialog's wait_window: ArgumentsDialog.__init__ sets result to ("", "", "").
AddArgumentOpen ==
    /\ send_window
    /\ ~dialog.open
    /\ Len(arguments) < MaxArguments
    /\ dialog' = [open |-> TRUE, result |-> PyTuple(<<PyStr(""), PyStr(""), PyStr("")>>)]
    /\ UNCHANGED <<arguments, msgbox>>
    /\ UNCHANGED dialog_rest

\* ArgumentsDialog.add_argument, the command of the Add button: the triple is
\* built and validated; a rejected one is reported and the dialog stays open,
\* an accepted one becomes the result and the dialog closes.
DialogAdd ==
    /\ dialog.open
    /\ \E name_text \in NameTexts, value_text \in Texts, value_type \in TypeChoices :
          LET args == PyTuple(<<PyStr(Join(strip(name_text))),
                               dialog_value(value_text, value_type),
                               PyStr(value_type)>>)
              checked == validate_api_call_arguments(args)
          IN  IF checked.raised # "none"
              THEN /\ msgbox' = checked.msg
                   /\ UNCHANGED <<dialog, arguments>>
              ELSE /\ dialog' = [open |-> FALSE, result |-> args]
                   /\ append_result(args)
                   /\ UNCHANGED msgbox
    /\ UNCHANGED dialog_rest

\* ArgumentsDialog.close, the command of the Cancel button and of the window
\* manager's close: the dialog is destroyed with its result as it is.
DialogClose ==
    /\ dialog.open
    /\ dialog' = [dialog EXCEPT !.open = FALSE]
    /\ append_result(dialog.result)
    /\ UNCHANGED msgbox
    /\ UNCHANGED dialog_rest

\* The Send API window has just been opened: Connect was clicked, then Send
\* API; the argument list is empty.
DialogInit ==
    /\ arguments = <<>>
    /\ dialog = NoDialog
    /\ msgbox = ""
    /\ send_window = TRUE
    /\ btn_connect = "disabled"
    /\ btn_disconnect = "normal"
    /\ btn_send_api = "normal"
    /\ tasks = <<NewTask("connect", PyNone)>>
    /\ speaker = Unset
    /\ handles = <<>>
    /\ requested = NoRequest
    /\ window_show = TRUE
    /\ run = [pc |-> "show", raised |-> "", h |-> 0]
    /\ settings = EmptyDict
    /\ settings_file = FileAbsent
    /\ call = [op |-> "__init__", arg |-> PyStr(""), raised |-> "none"]
    /\ vin = [kind |-> "none"]
    /\ vout = NoValidation
    /\ events = Unset
    /\ nreceived = 0
    /\ lst_events = <<>>
    /\ notified = NotNotified

DialogNext ==
    \/ AddArgumentOpen
    \/ DialogAdd
    \/ DialogClose

SpecDialog == DialogInit /\ [][DialogNext]_vars

---------------------------------------------------------------------------
(* Claims about the argument dialog, checked under SpecDialog. *)

\* C15: every triple in the argument list of the compose form satisfies
\* validate_argument: a cancelled or closed dialog and a rejected input
\* append nothing.
C15_ArgumentsAllValid ==
    \A i \in 1..Len(arguments) :
        validate_api_call_arguments(arguments[i]) = Returned

=============================================================================
